---- MODULE Spec2Model ----
(***************************************************************************)
(* Model of esql/esql_listener.py: ESQLValidatorListener, the listener     *)
(* that a depth-first parse-tree walk drives over an ES|QL parse tree to   *)
(* collect fields and indices and to check literals against a schema.      *)
(*                                                                         *)
(* The parse tree is an immutable input: a sequence of nodes in pre-order  *)
(* (document order), each with its rule kind, its parent (parentCtx), its  *)
(* text (getText(): the concatenated tokens below it) and its children.    *)
(* The walk enters one node per step and calls the listener's handler for  *)
(* the node's kind; a raised exception ends the walk.                      *)
(***************************************************************************)
EXTENDS Naturals, Sequences, FiniteSets, TLC

VARIABLES
    tree,                \* the parse tree being walked (immutable input)
    schema,              \* self.schema: field name -> declared type
    field_list,          \* self.field_list
    indices,             \* self.indices
    get_event_datasets,  \* self.get_event_datasets (the spec's dataset_comparisons)
    pos,                 \* index of the next node the walker enters
    err,                 \* the exception that ended the walk, or NoError
    pass,                \* number of the validation pass (one listener per pass)
    prev                 \* outcome of the previous pass, or NoOutcome

vars == <<tree, schema, field_list, indices, get_event_datasets, pos, err, pass, prev>>

----------------------------------------------------------------------------
(* Bounds of the model *)

\* commands per query
MaxCmds == 2
\* literals per in-list
MaxList == 2
\* validation passes over the same tree
MaxPasses == 2
\* nodes per parse tree
MaxNodes == 17

----------------------------------------------------------------------------
(* Parse trees (antlr4 ParserRuleContext as produced by EsqlBaseParser) *)

\* Python's None, where the code can yield it
PyNone == "<None>"

\* str(x) as an f-string formats it
Str(x) == IF x = PyNone THEN "None" ELSE x

LiteralKinds ==
    {"NullLiteral", "QualifiedIntegerLiteral", "DecimalLiteral",
     "IntegerLiteral", "BooleanLiteral", "StringLiteral",
     "NumericArrayLiteral", "BooleanArrayLiteral", "StringArrayLiteral"}

\* a source text for a literal of each kind
LitText(k) ==
    CASE k = "NullLiteral" -> "null"
      [] k = "QualifiedIntegerLiteral" -> "1day"
      [] k = "DecimalLiteral" -> "1.5"
      [] k = "IntegerLiteral" -> "1"
      [] k = "BooleanLiteral" -> "true"
      [] k = "StringLiteral" -> "\"nginx\""
      [] k = "NumericArrayLiteral" -> "[1,2]"
      [] k = "BooleanArrayLiteral" -> "[true]"
      [] k = "StringArrayLiteral" -> "[\"a\"]"

\* tree descriptors: a rule node with children, or a leaf with its token
Rule(kind, kids) == [kind |-> kind, tok |-> "", kids |-> kids]
Leaf(kind, tok) == [kind |-> kind, tok |-> tok, kids |-> <<>>]

QN(f) == Leaf("QualifiedName", f)
Src(f) == Leaf("SourceIdentifier", f)
Tok(s) == Leaf("Terminal", s)
Lit(k) == Leaf(k, LitText(k))
OpE(x) == Rule("OperatorExpression", <<x>>)
ValE(x) == Rule("ValueExpression", <<x>>)

\* left=operatorExpression comparisonOperator right=operatorExpression
Cmp(l, r) == Rule("Comparison", <<OpE(l), Tok("=="), OpE(r)>>)

RECURSIVE InItems(_, _)
InItems(lits, i) ==
    IF i > Len(lits) THEN <<>>
    ELSE (IF i = 1 THEN <<>> ELSE <<Tok(",")>>) \o <<ValE(Lit(lits[i]))>> \o InItems(lits, i + 1)

\* valueExpression IN ( valueExpression (, valueExpression)* )
LogicalIn(l, lits) ==
    Rule("LogicalIn", <<ValE(l), Tok("IN"), Tok("(")>> \o InItems(lits, 1) \o <<Tok(")")>>)

FromCmd(ix) == Rule("FromCommand", <<Tok("FROM"), Src(ix)>>)
DropCmd(f) == Rule("DropCommand", <<Tok("DROP"), Src(f)>>)
WhereCmd(e) == Rule("WhereCommand", <<Tok("WHERE"), e>>)
RowCmd(k) == Rule("RowCommand", <<Tok("ROW"), Rule("Field", <<Lit(k)>>)>>)
\* a qualified name directly below the eval clause
EvalDirect(f) == Rule("EvalCommand", <<Tok("EVAL"), QN(f)>>)
\* EVAL f = g + 1: the names sit below a field rule of the eval clause
EvalField(f, g) ==
    Rule("EvalCommand",
         <<Tok("EVAL"),
           Rule("Field", <<QN(f), Tok("="),
                           Rule("OperatorExpression", <<QN(g), Tok("+"), Lit("IntegerLiteral")>>)>>)>>)

RECURSIVE Size(_)
RECURSIVE SizeKids(_, _)
Size(t) == 1 + SizeKids(t.kids, 1)
SizeKids(kids, i) == IF i > Len(kids) THEN 0 ELSE Size(kids[i]) + SizeKids(kids, i + 1)

\* getText(): the tokens below the node, concatenated (no whitespace)
RECURSIVE TextOf(_)
RECURSIVE TextKids(_, _)
TextOf(t) == IF t.kids = <<>> THEN t.tok ELSE TextKids(t.kids, 1)
TextKids(kids, i) == IF i > Len(kids) THEN "" ELSE TextOf(kids[i]) \o TextKids(kids, i + 1)

\* indices of the children of a node whose first child gets index first
RECURSIVE ChildIdx(_, _, _)
ChildIdx(kids, i, first) ==
    IF i > Len(kids) THEN <<>>
    ELSE <<first>> \o ChildIdx(kids, i + 1, first + Size(kids[i]))

\* the nodes of t in pre-order, t's root getting index idx and parent par
RECURSIVE Flatten(_, _, _)
RECURSIVE FlattenKids(_, _, _, _)
Flatten(t, par, idx) ==
    <<[kind |-> t.kind, parent |-> par, text |-> TextOf(t),
       children |-> ChildIdx(t.kids, 1, idx + 1)]>>
    \o FlattenKids(t.kids, 1, idx, idx + 1)
FlattenKids(kids, i, par, first) ==
    IF i > Len(kids) THEN <<>>
    ELSE Flatten(kids[i], par, first) \o FlattenKids(kids, i + 1, par, first + Size(kids[i]))

FieldNames == {"event.dataset", "count"}
SchemaTypes == {"keyword", "integer", "decimal", "boolean"}
InListKinds == {"IntegerLiteral", "StringLiteral", "NullLiteral"}

SeqsUpTo(S, n) == UNION {[1..m -> S] : m \in 1..n}

Commands ==
    {FromCmd("logs-*")}
    \cup {DropCmd(f) : f \in FieldNames}
    \cup {EvalDirect(f) : f \in FieldNames}
    \cup {EvalField("count", "event.dataset")}
    \cup {WhereCmd(Cmp(QN("count"), Lit(k))) : k \in LiteralKinds}
    \cup {WhereCmd(Cmp(QN("event.dataset"), Lit(k))) : k \in {"StringLiteral", "IntegerLiteral"}}
    \cup {WhereCmd(Cmp(Lit("IntegerLiteral"), QN("count")))}
    \cup {WhereCmd(LogicalIn(QN("count"), lits)) : lits \in SeqsUpTo(InListKinds, MaxList)}
    \cup {WhereCmd(Cmp(QN("event.dataset"), LogicalIn(QN("count"), <<"IntegerLiteral">>)))}
    \cup {RowCmd("IntegerLiteral")}

\* the parse tree of a query: the commands below the statement's root
Query(cmds) == Flatten(Rule("SingleStatement", cmds), 0, 1)

Queries == {cmds \in SeqsUpTo(Commands, MaxCmds) : 1 + SizeKids(cmds, 1) <= MaxNodes}

Trees == {Query(cmds) : cmds \in Queries}

\* schemas: a declared type for some of the field names
Schemas == UNION {[D -> SchemaTypes] : D \in SUBSET FieldNames}

----------------------------------------------------------------------------
(* Tree accessors *)

Kind(t, ctx) == IF ctx = 0 THEN PyNone ELSE t[ctx].kind
ParentCtx(t, ctx) == t[ctx].parent
GetText(t, ctx) == t[ctx].text

\* ctx.getChild(0): the first child, or None (0)
GetChild0(t, ctx) == IF t[ctx].children = <<>> THEN 0 ELSE t[ctx].children[1]

\* the first child of ctx of the given rule kind, e.g. ctx.operatorExpression(0)
TypedChild0(t, ctx, kind) ==
    LET c == t[ctx].children
        hits == {j \in 1..Len(c) : t[c[j]].kind = kind}
    IN IF hits = {} THEN 0
       ELSE c[CHOOSE j \in hits : \A h \in hits : j <= h]

\* whether node a is a proper ancestor of node n
RECURSIVE HasAncestor(_, _, _)
HasAncestor(t, n, a) ==
    IF t[n].parent = 0 THEN FALSE
    ELSE t[n].parent = a \/ HasAncestor(t, t[n].parent, a)

----------------------------------------------------------------------------
(* ESQLValidatorListener *)

NoError == [cls |-> "", msg |-> ""]
ESQLSyntaxError(m) == [cls |-> "ESQLSyntaxError", msg |-> m]
ValueError(m) == [cls |-> "ValueError", msg |-> m]

\* f"Invalid field: {field}"
InvalidFieldMsg(field) == "Invalid field: " \o field

\* f"Field '{field}' in context '{context_type}'" f"expects type '{expected_type}', but got '{actual_type}'"
MismatchMsg(field, context_type, expected_type, actual_type) ==
    "Field '" \o field \o "' in context '" \o context_type \o "'"
    \o "expects type '" \o expected_type \o "', but got '" \o Str(actual_type) \o "'"

\* mutation of Push: the entry is inserted at the front
Push_Front(list, x) == <<x>> \o list

\* list.append(x)
Push(list, x) == Append(list, x)

\* mutation of UnknownField: the dataset field is taken as always known
UnknownField_Builtin(s, field) == field \notin DOMAIN s /\ field # "event.dataset"

\* field not in self.schema
UnknownField(s, field) == field \notin DOMAIN s

\* mutation of ParentIsEval: any eval clause above the node exempts it
ParentIsEval_AnyDepth(t, ctx) == \E a \in 1..Len(t) : Kind(t, a) = "EvalCommand" /\ HasAncestor(t, ctx, a)

\* mutation of ParentIsEval: the node itself is tested, not its parent
ParentIsEval_Self(t, ctx) == Kind(t, ctx) = "EvalCommand"

\* isinstance(ctx.parentCtx, EsqlBaseParser.EvalCommandContext)
ParentIsEval(t, ctx) == Kind(t, ParentCtx(t, ctx)) = "EvalCommand"

\* mutation of ParentIsFrom: the where clause is tested for instead of the from clause
ParentIsFrom_Where(t, ctx) == Kind(t, ParentCtx(t, ctx)) = "WhereCommand"

\* isinstance(ctx.parentCtx, EsqlBaseParser.FromCommandContext)
ParentIsFrom(t, ctx) == Kind(t, ParentCtx(t, ctx)) = "FromCommand"

\* the text enterQualifiedName appends to get_event_datasets
DatasetEntry(t, ctx) == GetText(t, ParentCtx(t, ctx))

\* mutation of FindFrom: the in-list branch returns a label get_literal_type does not know
RECURSIVE FindFrom_InLabel(_, _)
FindFrom_InLabel(t, p) ==
    IF p = 0 THEN <<PyNone, PyNone>>
    ELSE IF Kind(t, p) = "Comparison"
         THEN LET field_ctx == GetChild0(t, TypedChild0(t, p, "OperatorExpression"))
              IN <<IF field_ctx # 0 THEN GetText(t, field_ctx) ELSE PyNone, "Comparison">>
    ELSE IF Kind(t, p) = "LogicalIn"
         THEN LET field_ctx == GetChild0(t, TypedChild0(t, p, "ValueExpression"))
              IN <<IF field_ctx # 0 THEN GetText(t, field_ctx) ELSE PyNone, "In">>
    ELSE FindFrom_InLabel(t, ParentCtx(t, p))

\* mutation of FindFrom: the search goes on to the outermost comparison or in-list
RECURSIVE FindFrom_Outermost(_, _)
FindFrom_Outermost(t, p) ==
    IF p = 0 THEN <<PyNone, PyNone>>
    ELSE LET outer == FindFrom_Outermost(t, ParentCtx(t, p))
         IN IF outer # <<PyNone, PyNone>> THEN outer
            ELSE IF Kind(t, p) = "Comparison"
                 THEN <<GetText(t, GetChild0(t, TypedChild0(t, p, "OperatorExpression"))), "Comparison">>
            ELSE IF Kind(t, p) = "LogicalIn"
                 THEN <<GetText(t, GetChild0(t, TypedChild0(t, p, "ValueExpression"))), "LogicalIn">>
            ELSE outer

\* the ancestor search, from the ancestor p upward
RECURSIVE FindFrom(_, _)
FindFrom(t, p) ==
    IF p = 0 THEN <<PyNone, PyNone>>
    ELSE IF Kind(t, p) = "Comparison"
         THEN LET field_ctx == GetChild0(t, TypedChild0(t, p, "OperatorExpression"))
              IN <<IF field_ctx # 0 THEN GetText(t, field_ctx) ELSE PyNone, "Comparison">>
    ELSE IF Kind(t, p) = "LogicalIn"
         THEN LET field_ctx == GetChild0(t, TypedChild0(t, p, "ValueExpression"))
              IN <<IF field_ctx # 0 THEN GetText(t, field_ctx) ELSE PyNone, "LogicalIn">>
    ELSE FindFrom(t, ParentCtx(t, p))

find_associated_field_and_context(t, ctx) == FindFrom(t, ParentCtx(t, ctx))

\* mutation of get_literal_type: the qualified-integer class left out of the isinstance tuple
get_literal_type_NoQualified(kind, context_type) ==
    IF context_type = "Comparison" \/ context_type = "LogicalIn"
    THEN IF kind = "StringLiteral" THEN "keyword"
         ELSE IF kind = "IntegerLiteral" THEN "integer"
         ELSE IF kind = "DecimalLiteral" THEN "decimal"
         ELSE IF kind = "BooleanLiteral" THEN "boolean"
         ELSE PyNone
    ELSE "unknown"

get_literal_type(kind, context_type) ==
    IF context_type = "Comparison" \/ context_type = "LogicalIn"
    THEN IF kind = "StringLiteral" THEN "keyword"
         ELSE IF kind \in {"IntegerLiteral", "QualifiedIntegerLiteral"} THEN "integer"
         ELSE IF kind = "DecimalLiteral" THEN "decimal"
         ELSE IF kind = "BooleanLiteral" THEN "boolean"
         ELSE PyNone
    ELSE "unknown"

\* mutation of check_literal_type: the declared type is read with schema.get(field)
\* and the membership test is left out
check_literal_type_SchemaGet(t, s, ctx) ==
    LET fc == find_associated_field_and_context(t, ctx)
        field == fc[1]
        context_type == fc[2]
    IN IF field # PyNone /\ field # ""
       THEN LET expected_type == IF field \in DOMAIN s THEN s[field] ELSE PyNone
                actual_type == get_literal_type(Kind(t, ctx), context_type)
            IN IF expected_type # actual_type
               THEN ValueError(MismatchMsg(field, context_type, Str(expected_type), actual_type))
               ELSE NoError
       ELSE NoError

\* the exception check_literal_type raises for the literal ctx, or NoError
check_literal_type(t, s, ctx) ==
    LET fc == find_associated_field_and_context(t, ctx)
        field == fc[1]
        context_type == fc[2]
    IN IF field # PyNone /\ field # "" /\ field \in DOMAIN s
       THEN LET expected_type == s[field]
                actual_type == get_literal_type(Kind(t, ctx), context_type)
            IN IF expected_type # actual_type
               THEN ValueError(MismatchMsg(field, context_type, expected_type, actual_type))
               ELSE NoError
       ELSE NoError

----------------------------------------------------------------------------
(* The walk *)

NoOutcome == [field_list |-> <<>>, indices |-> <<>>, get_event_datasets |-> <<>>,
              err |-> NoError, pos |-> 0]

Outcome == [field_list |-> field_list, indices |-> indices,
            get_event_datasets |-> get_event_datasets, err |-> err, pos |-> pos]

Init ==
    /\ tree \in Trees
    /\ schema \in Schemas
    /\ field_list = <<>>
    /\ indices = <<>>
    /\ get_event_datasets = <<>>
    /\ pos = 1
    /\ err = NoError
    /\ pass = 1
    /\ prev = NoOutcome

Walking == pos <= Len(tree) /\ err = NoError
Finished == pos > Len(tree) /\ err = NoError
Failed == err # NoError

\* the walker is about to enter a node of the given kind
Entering(kind) == Walking /\ Kind(tree, pos) = kind

\* the handler returned: the walk moves on to the next node in pre-order
Return == pos' = pos + 1 /\ err' = err

\* mutation of Raise: the error is dropped and the walk goes on
Raise_Swallowed(e) == pos' = pos + 1 /\ err' = err

\* the handler raised: the exception leaves the walk
Raise(e) == pos' = pos /\ err' = e

\* mutation of enterQualifiedName: the schema check comes before the append
enterQualifiedName_CheckFirst ==
    /\ Entering("QualifiedName")
    /\ IF ~ParentIsEval(tree, pos)
       THEN LET field == GetText(tree, pos)
            IN IF UnknownField(schema, field)
               THEN /\ Raise(ESQLSyntaxError(InvalidFieldMsg(field)))
                    /\ UNCHANGED <<field_list, get_event_datasets>>
               ELSE /\ field_list' = Push(field_list, field)
                    /\ get_event_datasets' =
                         IF field = "event.dataset"
                         THEN Push(get_event_datasets, DatasetEntry(tree, pos))
                         ELSE get_event_datasets
                    /\ Return
       ELSE /\ UNCHANGED <<field_list, get_event_datasets>>
            /\ Return
    /\ UNCHANGED <<tree, schema, indices, pass, prev>>

\* mutation of enterQualifiedName: the dataset entry is appended before the schema check
enterQualifiedName_DatasetFirst ==
    /\ Entering("QualifiedName")
    /\ IF ~ParentIsEval(tree, pos)
       THEN LET field == GetText(tree, pos)
            IN /\ field_list' = Push(field_list, field)
               /\ get_event_datasets' =
                    IF field = "event.dataset"
                    THEN Push(get_event_datasets, DatasetEntry(tree, pos))
                    ELSE get_event_datasets
               /\ IF UnknownField(schema, field)
                  THEN Raise(ESQLSyntaxError(InvalidFieldMsg(field)))
                  ELSE Return
       ELSE /\ UNCHANGED <<field_list, get_event_datasets>>
            /\ Return
    /\ UNCHANGED <<tree, schema, indices, pass, prev>>

enterQualifiedName ==
    /\ Entering("QualifiedName")
    /\ IF ~ParentIsEval(tree, pos)
       THEN LET field == GetText(tree, pos)
            IN /\ field_list' = Push(field_list, field)
               /\ IF UnknownField(schema, field)
                  THEN /\ Raise(ESQLSyntaxError(InvalidFieldMsg(field)))
                       /\ UNCHANGED get_event_datasets
                  ELSE /\ get_event_datasets' =
                            IF field = "event.dataset"
                            THEN Push(get_event_datasets, DatasetEntry(tree, pos))
                            ELSE get_event_datasets
                       /\ Return
       ELSE /\ UNCHANGED <<field_list, get_event_datasets>>
            /\ Return
    /\ UNCHANGED <<tree, schema, indices, pass, prev>>

\* mutation of enterSourceIdentifier: the field branch mirrors the dataset collection
\* of enterQualifiedName
enterSourceIdentifier_Mirror ==
    /\ Entering("SourceIdentifier")
    /\ IF ~ParentIsFrom(tree, pos)
       THEN LET field == GetText(tree, pos)
            IN /\ field_list' = Push(field_list, field)
               /\ IF UnknownField(schema, field)
                  THEN /\ Raise(ValueError(InvalidFieldMsg(field)))
                       /\ UNCHANGED get_event_datasets
                  ELSE /\ get_event_datasets' =
                            IF field = "event.dataset"
                            THEN Push(get_event_datasets, DatasetEntry(tree, pos))
                            ELSE get_event_datasets
                       /\ Return
               /\ UNCHANGED indices
       ELSE /\ indices' = Push(indices, GetText(tree, pos))
            /\ Return
            /\ UNCHANGED <<field_list, get_event_datasets>>
    /\ UNCHANGED <<tree, schema, pass, prev>>

\* mutation of enterSourceIdentifier: the text is appended to indices without an
\* else, in the field branch too
enterSourceIdentifier_Both ==
    /\ Entering("SourceIdentifier")
    /\ indices' = Push(indices, GetText(tree, pos))
    /\ IF ~ParentIsFrom(tree, pos)
       THEN LET field == GetText(tree, pos)
            IN /\ field_list' = Push(field_list, field)
               /\ IF UnknownField(schema, field)
                  THEN Raise(ValueError(InvalidFieldMsg(field)))
                  ELSE Return
       ELSE /\ Return
            /\ UNCHANGED field_list
    /\ UNCHANGED <<tree, schema, get_event_datasets, pass, prev>>

enterSourceIdentifier ==
    /\ Entering("SourceIdentifier")
    /\ IF ~ParentIsFrom(tree, pos)
       THEN LET field == GetText(tree, pos)
            IN /\ field_list' = Push(field_list, field)
               /\ IF UnknownField(schema, field)
                  THEN Raise(ValueError(InvalidFieldMsg(field)))
                  ELSE Return
               /\ UNCHANGED indices
       ELSE /\ indices' = Push(indices, GetText(tree, pos))
            /\ Return
            /\ UNCHANGED field_list
    /\ UNCHANGED <<tree, schema, get_event_datasets, pass, prev>>

\* the body of every literal handler: self.check_literal_type(ctx)
CheckLiteral ==
    /\ LET e == check_literal_type(tree, schema, pos)
       IN IF e # NoError THEN Raise(e) ELSE Return
    /\ UNCHANGED <<tree, schema, field_list, indices, get_event_datasets, pass, prev>>

enterNullLiteral ==
    /\ Entering("NullLiteral")
    /\ CheckLiteral

enterQualifiedIntegerLiteral ==
    /\ Entering("QualifiedIntegerLiteral")
    /\ CheckLiteral

enterDecimalLiteral ==
    /\ Entering("DecimalLiteral")
    /\ CheckLiteral

enterIntegerLiteral ==
    /\ Entering("IntegerLiteral")
    /\ CheckLiteral

enterBooleanLiteral ==
    /\ Entering("BooleanLiteral")
    /\ CheckLiteral

enterStringLiteral ==
    /\ Entering("StringLiteral")
    /\ CheckLiteral

enterNumericArrayLiteral ==
    /\ Entering("NumericArrayLiteral")
    /\ CheckLiteral

enterBooleanArrayLiteral ==
    /\ Entering("BooleanArrayLiteral")
    /\ CheckLiteral

enterStringArrayLiteral ==
    /\ Entering("StringArrayLiteral")
    /\ CheckLiteral

HandledKinds == {"QualifiedName", "SourceIdentifier"} \cup LiteralKinds

\* a node the listener does not override a handler for: the base listener's no-op
enterOtherRule ==
    /\ Walking
    /\ Kind(tree, pos) \notin HandledKinds
    /\ Return
    /\ UNCHANGED <<tree, schema, field_list, indices, get_event_datasets, pass, prev>>

\* mutation of NewListener: field_list is shared between listeners, not created afresh
NewListener_SharedList ==
    /\ Finished \/ Failed
    /\ pass < MaxPasses
    /\ prev' = Outcome
    /\ field_list' = field_list
    /\ indices' = <<>>
    /\ get_event_datasets' = <<>>
    /\ pos' = 1
    /\ err' = NoError
    /\ pass' = pass + 1
    /\ UNCHANGED <<tree, schema>>

\* __init__: a fresh listener for another pass over the same tree and schema
NewListener ==
    /\ Finished \/ Failed
    /\ pass < MaxPasses
    /\ prev' = Outcome
    /\ field_list' = <<>>
    /\ indices' = <<>>
    /\ get_event_datasets' = <<>>
    /\ pos' = 1
    /\ err' = NoError
    /\ pass' = pass + 1
    /\ UNCHANGED <<tree, schema>>

Next ==
    \/ enterQualifiedName
    \/ enterSourceIdentifier
    \/ enterNullLiteral
    \/ enterQualifiedIntegerLiteral
    \/ enterDecimalLiteral
    \/ enterIntegerLiteral
    \/ enterBooleanLiteral
    \/ enterStringLiteral
    \/ enterNumericArrayLiteral
    \/ enterBooleanArrayLiteral
    \/ enterStringArrayLiteral
    \/ enterOtherRule
    \/ NewListener

Spec == Init /\ [][Next]_vars

----------------------------------------------------------------------------
(* Vocabulary of the properties *)

Nodes == 1..Len(tree)

\* the literal kinds the specification gives an inferred type, and that type
MappedKinds == {"StringLiteral", "IntegerLiteral", "QualifiedIntegerLiteral",
                "DecimalLiteral", "BooleanLiteral"}
UnmappedKinds == LiteralKinds \ MappedKinds
InferredType(k) ==
    CASE k = "StringLiteral" -> "keyword"
      [] k \in {"IntegerLiteral", "QualifiedIntegerLiteral"} -> "integer"
      [] k = "DecimalLiteral" -> "decimal"
      [] k = "BooleanLiteral" -> "boolean"

\* for the literal n of a comparison `field <op> literal`: the node of field; else 0
ComparedField(n) ==
    LET o == tree[n].parent
        c == IF o = 0 THEN 0 ELSE tree[o].parent
    IN IF /\ c # 0
          /\ Kind(tree, o) = "OperatorExpression"
          /\ Kind(tree, c) = "Comparison"
          /\ Len(tree[c].children) = 3
          /\ tree[c].children[3] = o
          /\ Kind(tree, tree[c].children[1]) = "OperatorExpression"
          /\ Len(tree[tree[c].children[1]].children) = 1
          /\ Kind(tree, tree[tree[c].children[1]].children[1]) = "QualifiedName"
       THEN tree[tree[c].children[1]].children[1]
       ELSE 0

\* a qualified-name node that is a plain field reference
PlainFieldRef(n) ==
    Kind(tree, n) = "QualifiedName" /\ Kind(tree, tree[n].parent) # "EvalCommand"

----------------------------------------------------------------------------
(* C1 *)

\* C1: the literal of a comparison `field <op> literal`, field a schema key of
\* declared type T and the literal's kind mapped to the type U, is accepted
\* if and only if T = U, and otherwise raises the type mismatch that names
\* the field, T, U and the context 'Comparison'.
C1_ComparisonLiteralChecked ==
    [][ (/\ Walking
         /\ Kind(tree, pos) \in MappedKinds
         /\ ComparedField(pos) # 0
         /\ GetText(tree, ComparedField(pos)) \in DOMAIN schema)
        => LET f == GetText(tree, ComparedField(pos))
               T == schema[f]
               U == InferredType(Kind(tree, pos))
           IN IF T = U
              THEN err' = NoError /\ pos' = pos + 1
              ELSE /\ err' = ValueError(MismatchMsg(f, "Comparison", T, U))
                   /\ pos' = pos ]_vars

\* a mapped literal of a comparison raised a type mismatch against a schema key
C1_Witness ==
    /\ Failed
    /\ Kind(tree, pos) \in MappedKinds
    /\ ComparedField(pos) # 0
    /\ GetText(tree, ComparedField(pos)) \in DOMAIN schema
    /\ err.cls = "ValueError"

----------------------------------------------------------------------------
(* C2 *)

\* C2: a literal whose kind has no type mapping (null, array literals), in a
\* comparison or in-list whose field operand is a schema key, never raises.
C2_UnmappedLiteralNeverRaises ==
    ~(/\ Failed
      /\ Kind(tree, pos) \in UnmappedKinds
      /\ find_associated_field_and_context(tree, pos)[1] \in DOMAIN schema)

----------------------------------------------------------------------------
(* C3 *)

\* C3: a pass over a tree with a plain field reference whose text is no schema
\* key never completes, and entering such a node raises the unknown-field
\* error naming its text, wherever else that text occurs in the tree.
C3_UnknownFieldRaises ==
    /\ [](Finished => \A n \in Nodes : PlainFieldRef(n) => GetText(tree, n) \in DOMAIN schema)
    /\ [][ (Walking /\ PlainFieldRef(pos) /\ GetText(tree, pos) \notin DOMAIN schema)
           => /\ err' = ESQLSyntaxError(InvalidFieldMsg(GetText(tree, pos)))
              /\ pos' = pos ]_vars

\* an unknown plain field reference raised although its text occurs elsewhere too
C3_Witness ==
    /\ Failed
    /\ PlainFieldRef(pos)
    /\ GetText(tree, pos) \notin DOMAIN schema
    /\ \E n \in Nodes : n # pos /\ GetText(tree, n) = GetText(tree, pos)

----------------------------------------------------------------------------
(* C4 *)

\* some eval clause is above the node n, at any depth
UnderEval(n) == \E a \in Nodes : Kind(tree, a) = "EvalCommand" /\ HasAncestor(tree, n, a)

\* C4 as stated: a qualified name anywhere under an eval clause is neither
\* appended to field_list nor checked against the schema.
C4_ExemptAtAnyDepth ==
    [][ (Walking /\ Kind(tree, pos) = "QualifiedName" /\ UnderEval(pos))
        => field_list' = field_list /\ err' = NoError ]_vars

\* C4 amended: under an eval clause only the qualified names whose immediate
\* parent is the eval clause are exempt; one deeper below it is appended to
\* field_list and raises the unknown-field error when it is no schema key.
C4_ExemptOnlyBelowEvalDirectly ==
    [][ (Walking /\ Kind(tree, pos) = "QualifiedName" /\ UnderEval(pos))
        => IF Kind(tree, tree[pos].parent) = "EvalCommand"
           THEN field_list' = field_list /\ err' = NoError
           ELSE /\ field_list' = Append(field_list, GetText(tree, pos))
                /\ err' = IF GetText(tree, pos) \in DOMAIN schema
                          THEN NoError
                          ELSE ESQLSyntaxError(InvalidFieldMsg(GetText(tree, pos))) ]_vars

\* a qualified name deeper under an eval clause was collected and found unknown
C4_Witness ==
    /\ Failed
    /\ Kind(tree, pos) = "QualifiedName"
    /\ UnderEval(pos)
    /\ Kind(tree, tree[pos].parent) # "EvalCommand"
    /\ field_list # <<>>
    /\ field_list[Len(field_list)] = GetText(tree, pos)

----------------------------------------------------------------------------
(* C5 *)

\* C5: the handler of a qualified name whose immediate parent is an eval
\* clause appends to no collection and raises nothing, schema key or not.
C5_EvalChildSkipped ==
    [][ (Walking /\ Kind(tree, pos) = "QualifiedName"
                 /\ Kind(tree, tree[pos].parent) = "EvalCommand")
        => /\ UNCHANGED <<field_list, indices, get_event_datasets>>
           /\ err' = NoError
           /\ pos' = pos + 1 ]_vars

\* the walk went past an eval clause's own qualified name that is no schema key
C5_Witness ==
    \E n \in Nodes :
        /\ n < pos
        /\ Kind(tree, n) = "QualifiedName"
        /\ Kind(tree, tree[n].parent) = "EvalCommand"
        /\ GetText(tree, n) \notin DOMAIN schema

----------------------------------------------------------------------------
(* C6 *)

\* C6: the handler of a source identifier whose immediate parent is a from
\* clause appends its text to indices, not to field_list, and raises nothing.
C6_FromSourceIsIndex ==
    [][ (Walking /\ Kind(tree, pos) = "SourceIdentifier"
                 /\ Kind(tree, tree[pos].parent) = "FromCommand")
        => /\ indices' = Append(indices, GetText(tree, pos))
           /\ field_list' = field_list
           /\ err' = NoError
           /\ pos' = pos + 1 ]_vars

\* an index that is no schema key was collected and the walk went on
C6_Witness ==
    \E n \in Nodes :
        /\ n < pos
        /\ Kind(tree, n) = "SourceIdentifier"
        /\ Kind(tree, tree[n].parent) = "FromCommand"
        /\ GetText(tree, n) \notin DOMAIN schema
        /\ indices # <<>>
        /\ indices[Len(indices)] = GetText(tree, n)

----------------------------------------------------------------------------
(* C7 *)

\* for the qualified name n that is the left-hand field of a comparison: the
\* node of that comparison; else 0
ComparisonOfLeftField(n) ==
    LET o == tree[n].parent
        c == IF o = 0 THEN 0 ELSE tree[o].parent
    IN IF /\ c # 0
          /\ Kind(tree, c) = "Comparison"
          /\ tree[c].children[1] = o
          /\ tree[o].children[1] = n
       THEN c
       ELSE 0

\* C7: a comparison whose left-hand field is event.dataset, a schema key,
\* contributes one entry to dataset_comparisons, appended in order of
\* appearance: the full text of the comparison expression.
C7_ComparisonTextCollected ==
    [][ (/\ Walking
         /\ Kind(tree, pos) = "QualifiedName"
         /\ GetText(tree, pos) = "event.dataset"
         /\ "event.dataset" \in DOMAIN schema
         /\ ComparisonOfLeftField(pos) # 0)
        => get_event_datasets' =
               Append(get_event_datasets, GetText(tree, ComparisonOfLeftField(pos))) ]_vars

----------------------------------------------------------------------------
(* C8 *)

\* the handler of node n raises when the walk enters n
Raises(n) ==
    IF Kind(tree, n) = "QualifiedName"
    THEN Kind(tree, tree[n].parent) # "EvalCommand" /\ GetText(tree, n) \notin DOMAIN schema
    ELSE IF Kind(tree, n) = "SourceIdentifier"
    THEN Kind(tree, tree[n].parent) # "FromCommand" /\ GetText(tree, n) \notin DOMAIN schema
    ELSE IF Kind(tree, n) \in LiteralKinds
    THEN check_literal_type(tree, schema, n) # NoError
    ELSE FALSE

\* C8: the walk is fail-fast: no node before the walker's position raises, a
\* failed pass stands at the first node in pre-order that raises, and after
\* the error no handler runs and no collection changes in that pass.
C8_FailFast ==
    /\ [](\A n \in Nodes : n < pos => ~Raises(n))
    /\ [](Failed => pos \in Nodes /\ Raises(pos))
    /\ [][ Failed => pass' # pass ]_vars

\* a pass failed at a node although a later node would raise too
C8_Witness ==
    /\ Failed
    /\ \E n \in Nodes : n > pos /\ Raises(n)

----------------------------------------------------------------------------
(* C9 *)

\* the error kind of an unknown field met as a qualified name
UnknownFieldKind == "ESQLSyntaxError"

\* C9: the error's kind tells the failed check: an unknown field, met as a
\* qualified name or as a source identifier outside a from clause, fails with
\* the unknown-field kind, and a literal type mismatch with another kind.
C9_ErrorKindTellsCheck ==
    Failed => ((err.cls = UnknownFieldKind) <=> (Kind(tree, pos) \notin LiteralKinds))

----------------------------------------------------------------------------
(* C10 *)

IsPrefix(a, b) == Len(a) <= Len(b) /\ SubSeq(b, 1, Len(a)) = a

\* C10: within a pass every step leaves the previous contents of field_list,
\* indices and dataset_comparisons as a prefix of the new contents.
C10_AppendOnly ==
    [][ pass' = pass
        => /\ IsPrefix(field_list, field_list')
           /\ IsPrefix(indices, indices')
           /\ IsPrefix(get_event_datasets, get_event_datasets') ]_vars

\* a collection holding two different entries
C10_Witness ==
    /\ Len(field_list) >= 2
    /\ field_list[1] # field_list[2]

----------------------------------------------------------------------------
(* C11 *)

\* C11: a second pass over the same tree with the same schema, started from a
\* fresh listener, ends with the same field_list, indices and
\* dataset_comparisons and the same outcome (success, or the same error at
\* the same node) as the pass before it.
C11_SecondPassSame ==
    (pass > 1 /\ (Finished \/ Failed)) => Outcome = prev

\* a second pass ended, as the first, with an error and collected fields
C11_Witness ==
    /\ pass = 2
    /\ Failed
    /\ Len(field_list) >= 2
    /\ prev.err # NoError

----------------------------------------------------------------------------
(* C12 *)

ContextKinds == {"Comparison", "LogicalIn"}

\* the comparisons and in-lists above node n
ContextAncestors(n) == {a \in Nodes : Kind(tree, a) \in ContextKinds /\ HasAncestor(tree, n, a)}

\* the nearest of them: in pre-order the deepest ancestor has the largest index
NearestContext(n) == CHOOSE a \in ContextAncestors(n) : \A b \in ContextAncestors(n) : b <= a

\* the field operand of a comparison or in-list: the first child of its first operand
FieldOperand(a) == tree[tree[a].children[1]].children[1]

ContextLabel(a) == IF Kind(tree, a) = "Comparison" THEN "Comparison" ELSE "LogicalIn"

\* C12: for every literal the ancestor search yields the field operand and the
\* kind of the nearest comparison or in-list above it, never of an outer one,
\* and (None, None) exactly when no ancestor is a comparison or in-list.
C12_NearestContext ==
    \A n \in Nodes :
        Kind(tree, n) \in LiteralKinds =>
            find_associated_field_and_context(tree, n) =
                IF ContextAncestors(n) = {}
                THEN <<PyNone, PyNone>>
                ELSE <<GetText(tree, FieldOperand(NearestContext(n))),
                       ContextLabel(NearestContext(n))>>

\* the walk went past a literal below an in-list that lies inside a comparison
\* on another field: the outer comparison alone would have raised a mismatch
C12_Witness ==
    \E n \in Nodes :
        /\ n < pos
        /\ Kind(tree, n) \in LiteralKinds
        /\ Cardinality(ContextAncestors(n)) = 2
        /\ \E a \in ContextAncestors(n) :
              /\ a # NearestContext(n)
              /\ GetText(tree, FieldOperand(a)) # GetText(tree, FieldOperand(NearestContext(n)))
              /\ GetText(tree, FieldOperand(a)) \in DOMAIN schema
              /\ schema[GetText(tree, FieldOperand(a))] # get_literal_type(Kind(tree, n), "Comparison")

----------------------------------------------------------------------------
(* C13 *)

\* the text of the field operand of the nearest comparison or in-list above n
NearestField(n) == GetText(tree, FieldOperand(NearestContext(n)))

\* C13: the handler of a literal that has no comparison or in-list above it,
\* or whose associated field text is no schema key, returns normally; a failed
\* literal check is always about a schema key; and a pass never reaches the
\* literal of `f <op> literal` with f no schema key: it fails at f with the
\* unknown-field error.
C13_UnconstrainedLiteralReturns ==
    /\ [][ (/\ Walking
            /\ Kind(tree, pos) \in LiteralKinds
            /\ (ContextAncestors(pos) = {} \/ NearestField(pos) \notin DOMAIN schema))
           => err' = NoError /\ pos' = pos + 1 ]_vars
    /\ [](Failed /\ Kind(tree, pos) \in LiteralKinds
          => ContextAncestors(pos) # {} /\ NearestField(pos) \in DOMAIN schema)
    /\ [](\A n \in Nodes :
            (/\ Kind(tree, n) \in LiteralKinds
             /\ ComparedField(n) # 0
             /\ GetText(tree, ComparedField(n)) \notin DOMAIN schema)
            => /\ pos <= ComparedField(n)
               /\ (Failed /\ pos = ComparedField(n)
                   => err = ESQLSyntaxError(InvalidFieldMsg(GetText(tree, ComparedField(n))))))

\* the walk went past a literal of a comparison or in-list whose associated
\* field text is no schema key
C13_Witness ==
    \E n \in Nodes :
        /\ n < pos
        /\ Kind(tree, n) \in LiteralKinds
        /\ ContextAncestors(n) # {}
        /\ NearestField(n) \notin DOMAIN schema

----------------------------------------------------------------------------
(* C14 *)

\* the literals of the list of the in-list a
InListItems(a) ==
    {n \in Nodes : /\ Kind(tree, n) \in LiteralKinds
                   /\ tree[n].parent # 0
                   /\ tree[tree[n].parent].parent = a
                   /\ tree[n].parent # tree[a].children[1]}

\* C14: in `field IN (l1, ..., ln)` with field a schema key of type T, the
\* pass fails inside the list only at the first literal in document order whose
\* mapped type differs from T, with the type mismatch of context 'LogicalIn',
\* and does not fail in the list when all mapped types equal T.
C14_InListFirstMismatch ==
    \A a \in Nodes :
        (/\ Kind(tree, a) = "LogicalIn"
         /\ Kind(tree, FieldOperand(a)) = "QualifiedName"
         /\ GetText(tree, FieldOperand(a)) \in DOMAIN schema)
        => LET f == GetText(tree, FieldOperand(a))
               T == schema[f]
               bad == {n \in InListItems(a) :
                          Kind(tree, n) \in MappedKinds /\ InferredType(Kind(tree, n)) # T}
           IN /\ \A b \in bad : pos <= b
              /\ (Failed /\ pos \in InListItems(a))
                 => /\ pos \in bad
                    /\ err = ValueError(MismatchMsg(f, "LogicalIn", T, InferredType(Kind(tree, pos))))

----------------------------------------------------------------------------
(* C15 *)

\* C15: the handler of a source identifier whose immediate parent is not a
\* from clause appends its text to field_list only, never to indices or to
\* dataset_comparisons (not even for event.dataset), and raises the
\* 'Invalid field' error exactly when the text is no schema key.
C15_SourceOutsideFromIsField ==
    [][ (/\ Walking
         /\ Kind(tree, pos) = "SourceIdentifier"
         /\ Kind(tree, tree[pos].parent) # "FromCommand")
        => /\ field_list' = Append(field_list, GetText(tree, pos))
           /\ indices' = indices
           /\ get_event_datasets' = get_event_datasets
           /\ IF GetText(tree, pos) \in DOMAIN schema
              THEN err' = NoError /\ pos' = pos + 1
              ELSE /\ err' # NoError
                   /\ err'.msg = InvalidFieldMsg(GetText(tree, pos))
                   /\ pos' = pos ]_vars

\* the walk went past a source identifier event.dataset outside a from clause,
\* a schema key, and dataset_comparisons is still empty
C15_Witness ==
    /\ get_event_datasets = <<>>
    /\ \E n \in Nodes :
          /\ n < pos
          /\ Kind(tree, n) = "SourceIdentifier"
          /\ Kind(tree, tree[n].parent) # "FromCommand"
          /\ GetText(tree, n) = "event.dataset"
          /\ "event.dataset" \in DOMAIN schema

----------------------------------------------------------------------------
(* C16 *)

\* C16: every entry of field_list but possibly the last is a schema key; after
\* a pass that completed every entry is one; and after a pass that failed at a
\* field reference the offending name is the last entry of field_list.
C16_FieldListKeys ==
    /\ \A i \in 1..Len(field_list) :
          i < Len(field_list) => field_list[i] \in DOMAIN schema
    /\ Finished => \A i \in 1..Len(field_list) : field_list[i] \in DOMAIN schema
    /\ (Failed /\ Kind(tree, pos) \in {"QualifiedName", "SourceIdentifier"})
       => /\ field_list # <<>>
          /\ field_list[Len(field_list)] = GetText(tree, pos)
          /\ GetText(tree, pos) \notin DOMAIN schema

\* a pass failed at an unknown field after it collected a known one
C16_Witness ==
    /\ Failed
    /\ Kind(tree, pos) \in {"QualifiedName", "SourceIdentifier"}
    /\ Len(field_list) >= 2
    /\ field_list[Len(field_list)] \notin DOMAIN schema

----------------------------------------------------------------------------
(* C17 *)

\* the plain field references to event.dataset whose handler has returned
DatasetRefsDone ==
    {n \in Nodes : n < pos /\ PlainFieldRef(n) /\ GetText(tree, n) = "event.dataset"}

\* C17: dataset_comparisons gains entries only in the qualified-name handler
\* and only when event.dataset is a schema key; its length is the number of
\* processed plain references to event.dataset that are schema keys, at most
\* the number of event.dataset entries of field_list; and an event.dataset
\* that is no schema key fails the pass with field_list extended and
\* dataset_comparisons unchanged.
C17_DatasetEntries ==
    /\ [](Len(get_event_datasets) =
             IF "event.dataset" \in DOMAIN schema THEN Cardinality(DatasetRefsDone) ELSE 0)
    /\ [](Len(get_event_datasets) <=
             Cardinality({i \in 1..Len(field_list) : field_list[i] = "event.dataset"}))
    /\ [][ (pass' = pass /\ get_event_datasets' # get_event_datasets)
           => /\ Kind(tree, pos) = "QualifiedName"
              /\ "event.dataset" \in DOMAIN schema ]_vars
    /\ [][ (/\ Walking
            /\ PlainFieldRef(pos)
            /\ GetText(tree, pos) = "event.dataset"
            /\ "event.dataset" \notin DOMAIN schema)
           => /\ field_list' = Append(field_list, "event.dataset")
              /\ get_event_datasets' = get_event_datasets
              /\ err' # NoError ]_vars

\* field_list holds more event.dataset entries than dataset_comparisons, which
\* is not empty
C17_Witness ==
    /\ get_event_datasets # <<>>
    /\ Len(get_event_datasets) <
          Cardinality({i \in 1..Len(field_list) : field_list[i] = "event.dataset"})

----------------------------------------------------------------------------
(* C18 *)

\* C18: a literal handler, returning or raising, leaves field_list, indices
\* and dataset_comparisons unchanged; the qualified-name handler leaves
\* indices unchanged; and a source-identifier handler appends one entry to
\* exactly one of indices and field_list.
C18_HandlerFrames ==
    [][ /\ (Walking /\ Kind(tree, pos) \in LiteralKinds)
           => UNCHANGED <<field_list, indices, get_event_datasets>>
        /\ (Walking /\ Kind(tree, pos) = "QualifiedName")
           => indices' = indices
        /\ (Walking /\ Kind(tree, pos) = "SourceIdentifier")
           => \/ /\ indices' = Append(indices, GetText(tree, pos))
                 /\ field_list' = field_list
              \/ /\ field_list' = Append(field_list, GetText(tree, pos))
                 /\ indices' = indices ]_vars

\* a literal handler raised with entries in all three collections
C18_Witness ==
    /\ Failed
    /\ Kind(tree, pos) \in LiteralKinds
    /\ field_list # <<>>
    /\ indices # <<>>
    /\ get_event_datasets # <<>>

----------------------------------------------------------------------------
(* C19 *)

\* C19: for every literal whose check reaches the type inference (its
\* associated field is a schema key) the context kind is 'Comparison' or
\* 'LogicalIn', so the inference never yields 'unknown' and no raised type
\* mismatch reports 'unknown' as the actual type.
C19_NeverUnknown ==
    \A n \in Nodes :
        LET fc == find_associated_field_and_context(tree, n)
        IN (Kind(tree, n) \in LiteralKinds /\ fc[1] # PyNone /\ fc[1] \in DOMAIN schema)
           => /\ fc[2] \in {"Comparison", "LogicalIn"}
              /\ get_literal_type(Kind(tree, n), fc[2]) # "unknown"
              /\ (Failed /\ pos = n)
                 => err # ValueError(MismatchMsg(fc[1], fc[2], schema[fc[1]], "unknown"))

\* a type mismatch was raised after the walk passed a literal with no
\* comparison or in-list above it
C19_Witness ==
    /\ Failed
    /\ Kind(tree, pos) \in LiteralKinds
    /\ \E n \in Nodes :
          /\ n < pos
          /\ Kind(tree, n) \in LiteralKinds
          /\ find_associated_field_and_context(tree, n) = <<PyNone, PyNone>>

====
